---- MODULE Spec2Model ----
(***************************************************************************)
(* Model of img_downloader_web_zip_only.py: the download worker thread,    *)
(* the per-task progress queue, the SSE progress stream, task submission,  *)
(* the ZIP file on disk, its download and the cleanup thread.              *)
(*                                                                         *)
(* Strings are sequences of one-character strings, so that the file name   *)
(* functions (split, basename, splitext, sanitize, the "_<n>" suffix) are  *)
(* computed as the code computes them.                                     *)
(***************************************************************************)
EXTENDS Integers, Sequences, FiniteSets, TLC

(***************************************************************************)
(* Bounds of the model.                                                    *)
(***************************************************************************)
\* task identifiers uuid4 can return
MaxIds == 2
\* concurrent SSE subscriptions
MaxSubs == 2
\* lines of one submission in the specification Spec
MaxUrls == 1
\* lines of one submission in the specification SpecTask
MaxTaskUrls == 2
\* lines of one submission in the specification SpecNames
MaxNameUrls == 3
\* largest response body and largest declared content-length, in half chunks
MaxHalves == 3
\* concurrent download_final requests
MaxFetches == 2
\* how long the clock runs, in cleanup intervals
MaxIntervals == 7

(***************************************************************************)
(* Program constants.                                                      *)
(***************************************************************************)
CHUNK_SIZE == 1024

ZIP_TTL_SECONDS == 3600

CLEANUP_INTERVAL == 600

\* default of sanitize_filename's max_len
MAX_LEN == 200

None == "None"

(***************************************************************************)
(* Character strings.                                                      *)
(***************************************************************************)
Letters ==
  {"a","b","c","d","e","f","g","h","i","j","k","l","m","n","o","p","q","r","s",
   "t","u","v","w","x","y","z","A","B","C","D","E","F","G","H","I","J","K","L",
   "M","N","O","P","Q","R","S","T","U","V","W","X","Y","Z"}

Digits == {"0","1","2","3","4","5","6","7","8","9"}

\* str.find(c, from): the first index >= from holding c, 0 when there is none
RECURSIVE Find(_, _, _)
Find(s, c, from) ==
  IF from > Len(s) THEN 0
  ELSE IF s[from] = c THEN from
  ELSE Find(s, c, from + 1)

\* str.rfind(c): the last index holding c, 0 when there is none
RECURSIVE RFind(_, _, _)
RFind(s, c, upto) ==
  IF upto < 1 THEN 0
  ELSE IF s[upto] = c THEN upto
  ELSE RFind(s, c, upto - 1)

Prefix(s, n) == SubSeq(s, 1, n)

Suffix(s, n) == SubSeq(s, n, Len(s))

Contains(s, c) == Find(s, c, 1) # 0

\* str(n) for a natural number
RECURSIVE IntToStr(_)
IntToStr(n) ==
  LET d == <<"0","1","2","3","4","5","6","7","8","9">>[(n % 10) + 1]
  IN IF n < 10 THEN <<d>> ELSE IntToStr(n \div 10) \o <<d>>

\* str.strip(): leading and trailing blanks removed
RECURSIVE Strip(_)
Strip(s) ==
  IF s = <<>> THEN s
  ELSE IF Head(s) = " " THEN Strip(Tail(s))
  ELSE IF s[Len(s)] = " " THEN Strip(Prefix(s, Len(s) - 1))
  ELSE s

\* the one element of a singleton; {F(x) : x \in {e}} names the value of e
Only(S) == CHOOSE x \in S : TRUE

(***************************************************************************)
(* File names.                                                             *)
(***************************************************************************)
\* _filename_sanitize_re: the characters the pattern leaves alone
SafeChars == Letters \cup Digits \cup {".", "_", "-"}

\* _filename_sanitize_re.sub("_", name)
Substitute(name) ==
  [k \in 1..Len(name) |-> IF name[k] \in SafeChars THEN name[k] ELSE "_"]

\* name[:max_len]
Truncate(name) == IF Len(name) > MAX_LEN THEN Prefix(name, MAX_LEN) ELSE name

sanitize_filename(name) ==
  Only({Truncate(n1) :
    n1 \in {Substitute(n0) :
      n0 \in {IF name = <<>> THEN <<"f","i","l","e">> ELSE name}}})

\* url.split("?", 1)[0]
BeforeQuery(url) ==
  LET q == Find(url, "?", 1) IN IF q = 0 THEN url ELSE Prefix(url, q - 1)

SchemeChars == Letters \cup Digits \cup {"+", "-", "."}

\* urlsplit: "<scheme>:" is split off when it is a well-formed scheme
StripScheme(url) ==
  LET c == Find(url, ":", 1) IN
  IF c > 1 /\ url[1] \in Letters /\ \A k \in 1..(c - 1) : url[k] \in SchemeChars
  THEN Suffix(url, c + 1)
  ELSE url

\* urlsplit: "//<netloc>" is split off, up to the next "/", "?" or "#"
StripNetloc(url) ==
  LET ends == {k \in 3..Len(url) : url[k] \in {"/", "?", "#"}} IN
  IF Len(url) >= 2 /\ url[1] = "/" /\ url[2] = "/"
  THEN IF ends = {} THEN <<>>
       ELSE Suffix(url, CHOOSE k \in ends : \A j \in ends : k <= j)
  ELSE url

\* urlsplit: what follows the first occurrence of c is split off
Before(url, c) ==
  LET f == Find(url, c, 1) IN IF f = 0 THEN url ELSE Prefix(url, f - 1)

\* urlparse: the parameters of the last path segment are split off
StripParams(url) ==
  LET p == Find(url, ";", RFind(url, "/", Len(url)) + 1) IN
  IF p = 0 THEN url ELSE Prefix(url, p - 1)

\* urllib.parse.urlparse(url).path
urlparse_path(url) ==
  Only({StripParams(u4) :
    u4 \in {Before(u3, "?") :
      u3 \in {Before(u2, "#") :
        u2 \in {StripNetloc(u1) :
          u1 \in {StripScheme(u0) : u0 \in {url}}}}}})

\* os.path.basename
basename(path) == Suffix(path, RFind(path, "/", Len(path)) + 1)

DEFAULT_EXT == <<".","j","p","g">>

DEFAULT_NAME == <<"f","i","l","e">> \o DEFAULT_EXT

extract_filename_from_url(url) ==
  Only({sanitize_filename(b2) :
    b2 \in {IF ~Contains(b1, ".") THEN b1 \o DEFAULT_EXT ELSE b1 :
      b1 \in {IF b0 = <<>> THEN DEFAULT_NAME ELSE b0 :
        b0 \in {basename(path) :
          path \in {urlparse_path(clean) :
            clean \in {BeforeQuery(u) : u \in {url}}}}}}})

\* os.path.splitext: the extension starts at the last dot, unless only dots
\* precede it
splitext(p) ==
  LET sep == RFind(p, "/", Len(p))
      dot == RFind(p, ".", Len(p))
  IN IF dot > sep /\ \E k \in (sep + 1)..(dot - 1) : p[k] # "."
     THEN <<Prefix(p, dot - 1), Suffix(p, dot)>>
     ELSE <<p, <<>>>>

(***************************************************************************)
(* State.                                                                  *)
(***************************************************************************)
VARIABLES
  progress_queues,  \* task_id -> queue.Queue of snapshots (the registry)
  worker,           \* task_id -> the download_worker thread: position and locals
  files,            \* task_id -> the file TMP_DIR/<task_id>.zip
  stream,           \* subscription -> the event_stream generator: position, locals, output
  response,         \* the HTTP response of the latest /start
  emitted,          \* history: task_id -> how many q.put were made, and how many with done
  now,              \* time.time(), in seconds since the process started
  fetch,            \* request -> the download_final handler: position and response
  sweep             \* the cleanup_zip_files thread: when its sleep ends

vars == <<progress_queues, worker, files, stream, response, emitted, now, fetch, sweep>>

Ids == 1..MaxIds

Subs == 1..MaxSubs

Fetches == 1..MaxFetches

Registered == DOMAIN progress_queues

\* item["status"]
FETCHING == "fetching"

SUCCEEDED == "succeeded"

FAILED_REQUEST == "failed: RequestException"

FAILED_OTHER == "failed: Exception"

Failed == {FAILED_REQUEST, FAILED_OTHER}

Terminal == {SUCCEEDED} \cup Failed

\* a thread that was never started. last tells that the response body has no
\* more chunks; received is history: the bytes each URL's response delivered
NoWorker ==
  [pc |-> "none", urls |-> <<>>, i |-> 0, items |-> <<>>, zf |-> <<>>,
   total |-> 0, downloaded |-> 0, chunks |-> <<>>, last |-> FALSE, exc |-> None,
   received |-> <<>>]

NoEntry == [error |-> None, items |-> <<>>, done |-> FALSE, seq |-> 0]

\* a generator that was never created; out lists the entries it sent by their
\* number (0 for the error entry), sent is the entry it sent last, and reached
\* is history: the items it has shown with progress 100 before that entry
NoStream ==
  [pc |-> "new", task_id |-> 0, data |-> <<>>, out |-> <<>>, sent |-> NoEntry,
   reached |-> {}]

\* a path of TMP_DIR no file is at; complete tells that the whole archive was
\* written and the file closed, mtime is os.path.getmtime
ABSENT == [exists |-> FALSE, complete |-> FALSE, entries |-> <<>>, mtime |-> 0]

\* a download_final request that was not made yet; late is history: the task
\* had put its done=True snapshot when the request arrived
NoFetch ==
  [pc |-> "new", task_id |-> 0, late |-> FALSE,
   result |-> [code |-> 0, complete |-> FALSE, entries |-> <<>>]]

\* the cleanup thread before its first round: wake is the time its sleep ends
NoSweep == [wake |-> 0]

NoResponse == [code |-> 0, task_id |-> 0]

Init ==
  /\ progress_queues = <<>>
  /\ worker = [t \in Ids |-> NoWorker]
  /\ files = [t \in Ids |-> ABSENT]
  /\ stream = [s \in Subs |-> NoStream]
  /\ response = NoResponse
  /\ emitted = [t \in Ids |-> [n |-> 0, done |-> 0]]
  /\ now = 0
  /\ fetch = [f \in Fetches |-> NoFetch]
  /\ sweep = NoSweep

(***************************************************************************)
(* download_worker.                                                        *)
(***************************************************************************)
\* items.copy(): a new list holding the same item objects; an item object is
\* named by its position in the worker's list
ItemsCopy(items) == [k \in 1..Len(items) |-> k]

\* the values a list of item objects holds when the worker's locals are w
ValuesIn(w, refs) == [k \in 1..Len(refs) |-> w.items[refs[k]]]

\* the values a list of item objects of task t holds now
Values(t, refs) == ValuesIn(worker[t], refs)

\* q.put(x)
QueuePut(q, x) == Append(q, x)

\* a variant whose queue holds one snapshot at most, as Queue(maxsize=1): put
\* waits while the queue is full
Put_bounded(t, w, done) ==
  /\ Len(progress_queues[t]) < 1
  /\ progress_queues' =
       [progress_queues EXCEPT ![t] =
          QueuePut(@, [items |-> ItemsCopy(w.items), done |-> done,
                       seq |-> emitted[t].n + 1])]
  /\ emitted' = [emitted EXCEPT ![t].n = @ + 1,
                                ![t].done = @ + (IF done THEN 1 ELSE 0)]

\* q.put({"items": items.copy(), "done": done}) after the worker became w; seq
\* numbers the snapshots of a task in the order they are put
Put(t, w, done) ==
  /\ progress_queues' =
       [progress_queues EXCEPT ![t] =
          QueuePut(@, [items |-> ItemsCopy(w.items), done |-> done,
                       seq |-> emitted[t].n + 1])]
  /\ emitted' = [emitted EXCEPT ![t].n = @ + 1,
                                ![t].done = @ + (IF done THEN 1 ELSE 0)]

\* any(it["name"] == unique_name for it in items)
NameUsed(items, name) == \E k \in 1..Len(items) : items[k].name = name

\* a variant that tries the suffix _1 and does not look again
UniqueNameOnce(items, unique_name, base, ext, suffix) ==
  IF NameUsed(items, unique_name)
  THEN base \o <<"_">> \o IntToStr(suffix) \o ext
  ELSE unique_name

\* the while loop of lines 192-194
RECURSIVE UniqueName(_, _, _, _, _)
UniqueName(items, unique_name, base, ext, suffix) ==
  IF NameUsed(items, unique_name)
  THEN UniqueName(items, base \o <<"_">> \o IntToStr(suffix) \o ext, base, ext, suffix + 1)
  ELSE unique_name

\* lines 187-194: the name of the item for url, given the items so far
ResolveName(items, url) ==
  Only({UniqueName(items, filename[1], filename[2][1], filename[2][2], 1) :
    filename \in {<<f, splitext(f)>> :
      f \in {extract_filename_from_url(u) : u \in {url}}}})

\* lines 186-198: the next URL gets its item, and the first snapshot is put
W_Append(t) ==
  LET w == worker[t] IN
  /\ w.pc = "loop"
  /\ w.i <= Len(w.urls)
  /\ \E unique_name \in {ResolveName(w.items, w.urls[w.i])} :
       LET item == [name |-> unique_name, status |-> FETCHING, progress |-> 0]
           w2 == [w EXCEPT !.items = Append(@, item), !.pc = "get",
                           !.received = Append(@, 0)]
       IN /\ worker' = [worker EXCEPT ![t] = w2]
          /\ Put(t, w2, FALSE)
  /\ UNCHANGED <<files, stream, response, now, fetch, sweep>>

\* int(s) of a header value: [ok, value]
RECURSIVE DigitsValue(_, _)
DigitsValue(s, acc) ==
  IF s = <<>> THEN acc
  ELSE DigitsValue(Tail(s),
         acc * 10 + (CHOOSE d \in 0..9 : IntToStr(d) = <<Head(s)>>))

ParseInt(s) ==
  LET neg == s # <<>> /\ Head(s) = "-"
      ds == IF neg THEN Tail(s) ELSE s
  IN IF ds # <<>> /\ \A k \in 1..Len(ds) : ds[k] \in Digits
     THEN [ok |-> TRUE, value |-> IF neg THEN 0 - DigitsValue(ds, 0) ELSE DigitsValue(ds, 0)]
     ELSE [ok |-> FALSE, value |-> 0]

\* lines 202-203: the request fails or answers with an error status
W_GetFail(t) ==
  /\ worker[t].pc = "get"
  /\ worker' = [worker EXCEPT ![t].pc = "except", ![t].exc = FAILED_REQUEST]
  /\ UNCHANGED <<progress_queues, files, stream, response, emitted, now, fetch, sweep>>

\* lines 202-206: the response arrives; h is its content-length header
\* ([present, value]); int() of a malformed value raises ValueError
W_GetOk(t, h) ==
  LET n == IF h.present /\ h.value # <<>> THEN ParseInt(h.value)
           ELSE [ok |-> TRUE, value |-> 0]
  IN /\ worker[t].pc = "get"
     /\ worker' =
          IF n.ok
          THEN [worker EXCEPT ![t].pc = "iter", ![t].total = n.value,
                              ![t].downloaded = 0, ![t].chunks = <<>>,
                              ![t].last = FALSE]
          ELSE [worker EXCEPT ![t].pc = "except", ![t].exc = FAILED_OTHER]
     /\ UNCHANGED <<progress_queues, files, stream, response, emitted, now, fetch, sweep>>

\* int(downloaded * 100 / total): true division, truncated toward zero
Percent(downloaded, total) ==
  IF total > 0 THEN (downloaded * 100) \div total
  ELSE 0 - ((downloaded * 100) \div (0 - total))

\* lines 207-217: one chunk of n bytes arrives (an empty one is skipped); a
\* chunk shorter than CHUNK_SIZE is the last of the body
W_Chunk(t, n) ==
  LET w == worker[t]
      k == Len(w.items)
      p == IF w.total # 0 THEN Percent(w.downloaded + n, w.total) ELSE 100
      w2 == [w EXCEPT !.chunks = Append(@, n), !.downloaded = @ + n,
                      !.items[k].progress = p, !.last = (n < CHUNK_SIZE),
                      !.received[k] = @ + n]
  IN /\ w.pc = "iter"
     /\ ~w.last
     /\ n \in 0..CHUNK_SIZE
     /\ IF n = 0
        THEN UNCHANGED vars
        ELSE /\ worker' = [worker EXCEPT ![t] = w2]
             /\ Put(t, w2, FALSE)
             /\ UNCHANGED <<files, stream, response, now, fetch, sweep>>

\* line 207: the connection breaks while the body is read
W_IterRaise(t) ==
  /\ worker[t].pc = "iter"
  /\ worker' = [worker EXCEPT ![t].pc = "except", ![t].exc = FAILED_REQUEST]
  /\ UNCHANGED <<progress_queues, files, stream, response, emitted, now, fetch, sweep>>

\* b"".join(chunks), a payload being its length
RECURSIVE Join(_)
Join(chunks) == IF chunks = <<>> THEN 0 ELSE Head(chunks) + Join(Tail(chunks))

\* lines 219-223: the body ended; the payload goes into the ZIP and the item
\* is marked done
W_Writestr(t) ==
  LET w == worker[t]
      k == Len(w.items)
      entry == [name |-> w.items[k].name,
                data |-> [url |-> w.urls[w.i], len |-> Join(w.chunks)]]
  IN /\ w.pc = "iter"
     /\ worker' = [worker EXCEPT ![t].zf = Append(@, entry),
                                 ![t].items[k].status = SUCCEEDED,
                                 ![t].pc = "ok"]
     /\ UNCHANGED <<progress_queues, files, stream, response, emitted, now, fetch, sweep>>

\* a variant that writes what was read of a failed download into the ZIP
W_ExceptStatusKeepingPayload(t) ==
  LET w == worker[t]
      k == Len(w.items)
      entry == [name |-> w.items[k].name,
                data |-> [url |-> w.urls[w.i], len |-> Join(w.chunks)]]
  IN /\ w.pc = "except"
     /\ worker' = [worker EXCEPT ![t].zf = Append(@, entry),
                                 ![t].items[k].status = w.exc,
                                 ![t].pc = "failed"]
     /\ UNCHANGED <<progress_queues, files, stream, response, emitted, now, fetch, sweep>>

\* a variant whose except branches leave the status as it is
W_ExceptStatus_forgetting(t) ==
  /\ worker[t].pc = "except"
  /\ worker' = [worker EXCEPT ![t].pc = "failed"]
  /\ UNCHANGED <<progress_queues, files, stream, response, emitted, now, fetch, sweep>>

\* lines 228 and 232: the except branches mark the item failed
W_ExceptStatus(t) ==
  LET w == worker[t] IN
  /\ w.pc = "except"
  /\ worker' = [worker EXCEPT ![t].items[Len(w.items)].status = w.exc,
                              ![t].pc = "failed"]
  /\ UNCHANGED <<progress_queues, files, stream, response, emitted, now, fetch, sweep>>

\* a variant that flags the snapshot of the last URL's end as done
W_FinishFlaggingLast(t) ==
  LET w == worker[t]
      w2 == [w EXCEPT !.items[Len(w.items)].progress = 100, !.i = @ + 1,
                      !.pc = "loop", !.exc = None, !.total = 0,
                      !.downloaded = 0, !.chunks = <<>>, !.last = FALSE]
  IN /\ w.pc \in {"ok", "failed"}
     /\ worker' = [worker EXCEPT ![t] = w2]
     /\ Put(t, w2, w2.i > Len(w2.urls))
     /\ UNCHANGED <<files, stream, response, now, fetch, sweep>>

\* a variant in which a failed URL ends the loop
W_FinishBreakingOnFailure(t) ==
  LET w == worker[t]
      w2 == [w EXCEPT !.items[Len(w.items)].progress = 100,
                      !.i = IF w.pc = "failed" THEN Len(w.urls) + 1 ELSE @ + 1,
                      !.pc = "loop", !.exc = None, !.total = 0,
                      !.downloaded = 0, !.chunks = <<>>, !.last = FALSE]
  IN /\ w.pc \in {"ok", "failed"}
     /\ worker' = [worker EXCEPT ![t] = w2]
     /\ Put(t, w2, FALSE)
     /\ UNCHANGED <<files, stream, response, now, fetch, sweep>>

\* lines 224-225, 229-230 and 233-234: progress 100, a snapshot, the next URL
W_Finish(t) ==
  LET w == worker[t]
      w2 == [w EXCEPT !.items[Len(w.items)].progress = 100, !.i = @ + 1,
                      !.pc = "loop", !.exc = None, !.total = 0,
                      !.downloaded = 0, !.chunks = <<>>, !.last = FALSE]
  IN /\ w.pc \in {"ok", "failed"}
     /\ worker' = [worker EXCEPT ![t] = w2]
     /\ Put(t, w2, FALSE)
     /\ UNCHANGED <<files, stream, response, now, fetch, sweep>>

\* lines 237-239: open(zip_path, "wb") creates or truncates the file, or fails
W_Open(t, ok) ==
  LET w == worker[t] IN
  /\ w.pc = "loop"
  /\ w.i > Len(w.urls)
  /\ IF ok
     THEN /\ files' = [files EXCEPT ![t] = [exists |-> TRUE, complete |-> FALSE,
                                            entries |-> <<>>, mtime |-> now]]
          /\ worker' = [worker EXCEPT ![t].pc = "write"]
     ELSE /\ worker' = [worker EXCEPT ![t].pc = "crashed"]
          /\ UNCHANGED files
  /\ UNCHANGED <<progress_queues, stream, response, emitted, now, fetch, sweep>>

\* a variant that announces the end of the task before it writes the archive
W_WriteAfterDone(t, ok) ==
  LET w == worker[t] IN
  /\ w.pc = "write"
  /\ worker' = [worker EXCEPT ![t].pc = "put_done"]
  /\ Put(t, w, TRUE)
  /\ UNCHANGED <<files, stream, response, now, fetch, sweep>>

\* line 240 and the end of the with block: the archive is written and closed,
\* or the write fails and leaves the file as it is
W_Write(t, ok) ==
  LET w == worker[t] IN
  /\ w.pc = "write"
  /\ IF ok
     THEN /\ files' = [files EXCEPT ![t] = [exists |-> TRUE, complete |-> TRUE,
                                            entries |-> w.zf, mtime |-> now]]
          /\ worker' = [worker EXCEPT ![t].pc = "put_done"]
     ELSE /\ worker' = [worker EXCEPT ![t].pc = "crashed"]
          /\ UNCHANGED files
  /\ UNCHANGED <<progress_queues, stream, response, emitted, now, fetch, sweep>>

\* line 243: the snapshot with done=True; the thread ends
W_Done(t) ==
  LET w == worker[t]
      w2 == [w EXCEPT !.pc = "finished"]
  IN /\ w.pc = "put_done"
     /\ worker' = [worker EXCEPT ![t] = w2]
     /\ Put(t, w2, TRUE)
     /\ UNCHANGED <<files, stream, response, now, fetch, sweep>>

(***************************************************************************)
(* start: POST /start.                                                     *)
(***************************************************************************)
NL == "\n"

\* str.splitlines() for text whose only line break is "\n"
RECURSIVE splitlines(_)
splitlines(raw) ==
  IF raw = <<>> THEN <<>>
  ELSE Only({IF n = 0 THEN <<raw>>
             ELSE <<Prefix(raw, n - 1)>>
                  \o Only({splitlines(rest) : rest \in {Suffix(raw, n + 1)}}) :
             n \in {Find(raw, NL, 1)}})

NonEmpty(u) == u # <<>>

\* [u.strip() for u in lines if u.strip()]
StripNonBlank(lines) ==
  SelectSeq([k \in 1..Len(lines) |-> Only({Strip(u) : u \in {lines[k]}})], NonEmpty)

\* a variant that creates the queue before it looks at the URL list
start_registering_first(raw, task_id) ==
  \E urls \in {StripNonBlank(lines) : lines \in {splitlines(raw)}} :
  /\ task_id \notin Registered
  /\ progress_queues' = (task_id :> <<>>) @@ progress_queues
  /\ IF urls = <<>>
     THEN /\ response' = [code |-> 400, task_id |-> 0]
          /\ UNCHANGED <<worker, files, stream, emitted, now, fetch, sweep>>
     ELSE /\ worker' = [worker EXCEPT ![task_id] =
                          [NoWorker EXCEPT !.pc = "loop", !.urls = urls, !.i = 1]]
          /\ response' = [code |-> 200, task_id |-> task_id]
          /\ UNCHANGED <<files, stream, emitted, now, fetch, sweep>>

\* a variant that rebuilds the registry with the new queue alone
start_replacing_registry(raw, task_id) ==
  \E urls \in {StripNonBlank(lines) : lines \in {splitlines(raw)}} :
  IF urls = <<>>
  THEN /\ response' = [code |-> 400, task_id |-> 0]
       /\ UNCHANGED <<progress_queues, worker, files, stream, emitted, now, fetch, sweep>>
  ELSE /\ task_id \notin Registered
       /\ progress_queues' = (task_id :> <<>>)
       /\ worker' = [worker EXCEPT ![task_id] =
                       [NoWorker EXCEPT !.pc = "loop", !.urls = urls, !.i = 1]]
       /\ response' = [code |-> 200, task_id |-> task_id]
       /\ UNCHANGED <<files, stream, emitted, now, fetch, sweep>>

\* lines 275-288; task_id is what uuid.uuid4() returns, an identifier that
\* was not used before
start(raw, task_id) ==
  \E urls \in {StripNonBlank(lines) : lines \in {splitlines(raw)}} :
  IF urls = <<>>
  THEN /\ response' = [code |-> 400, task_id |-> 0]
       /\ UNCHANGED <<progress_queues, worker, files, stream, emitted, now, fetch, sweep>>
  ELSE /\ task_id \notin Registered
       /\ progress_queues' = (task_id :> <<>>) @@ progress_queues
       /\ worker' = [worker EXCEPT ![task_id] =
                       [NoWorker EXCEPT !.pc = "loop", !.urls = urls, !.i = 1]]
       /\ response' = [code |-> 200, task_id |-> task_id]
       /\ UNCHANGED <<files, stream, emitted, now, fetch, sweep>>

(***************************************************************************)
(* progress_stream.event_stream: GET /progress/<task_id>.                  *)
(***************************************************************************)
\* q.get(): the oldest entry, and what stays queued
QueueHead(q) == Head(q)

QueueRest(q) == Tail(q)

NOT_FOUND == [NoEntry EXCEPT !.error = "task not found"]

\* json.dumps(data): the values the snapshot's item objects hold when it runs
dumps(t, data) ==
  [error |-> None, items |-> Values(t, data.items), done |-> data.done,
   seq |-> data.seq]

\* a variant that gives an unknown task a queue of its own and polls it
S_OpenCreating(s, task_id) ==
  /\ stream[s].pc = "new"
  /\ stream' = [stream EXCEPT ![s].pc = "poll", ![s].task_id = task_id]
  /\ progress_queues' =
       IF task_id \in Registered THEN progress_queues
       ELSE (task_id :> <<>>) @@ progress_queues
  /\ UNCHANGED <<worker, files, response, emitted, now, fetch, sweep>>

\* lines 253-256: the queue is looked up; an unknown task gets the error
\* entry and the stream ends
S_Open(s, task_id) ==
  /\ stream[s].pc = "new"
  /\ stream' =
       IF task_id \in Registered
       THEN [stream EXCEPT ![s].pc = "poll", ![s].task_id = task_id]
       ELSE [stream EXCEPT ![s].pc = "closed", ![s].task_id = task_id,
                           ![s].out = <<0>>, ![s].sent = NOT_FOUND]
  /\ UNCHANGED <<progress_queues, worker, files, response, emitted, now, fetch, sweep>>

\* a variant that takes the newest snapshot, as a LifoQueue would
S_GetNewest(s) ==
  LET t == stream[s].task_id
      q == progress_queues[t]
  IN /\ stream[s].pc = "poll"
     /\ q # <<>>
     /\ stream' = [stream EXCEPT ![s].data = <<q[Len(q)]>>, ![s].pc = "yield"]
     /\ progress_queues' = [progress_queues EXCEPT ![t] = Prefix(q, Len(q) - 1)]
     /\ UNCHANGED <<worker, files, response, emitted, now, fetch, sweep>>

\* line 259: q.get(timeout=0.1) takes the oldest snapshot off the queue
S_Get(s) ==
  LET t == stream[s].task_id IN
  /\ stream[s].pc = "poll"
  /\ progress_queues[t] # <<>>
  /\ stream' = [stream EXCEPT ![s].data = <<QueueHead(progress_queues[t])>>,
                              ![s].pc = "yield"]
  /\ progress_queues' = [progress_queues EXCEPT ![t] = QueueRest(@)]
  /\ UNCHANGED <<worker, files, response, emitted, now, fetch, sweep>>

\* lines 263-264: the queue stayed empty for the timeout; poll again
S_Empty(s) ==
  /\ stream[s].pc = "poll"
  /\ progress_queues[stream[s].task_id] = <<>>
  /\ UNCHANGED vars

\* the items an entry shows with progress 100
Shown100(entry) == {k \in 1..Len(entry.items) : entry.items[k].progress = 100}

\* a variant that drops the task's queue from the registry once done is sent
S_Yield_forgetting(s) ==
  LET t == stream[s].task_id
      data == stream[s].data[1]
  IN /\ stream[s].pc = "yield"
     /\ stream' = [stream EXCEPT ![s].out = Append(@, data.seq),
                                 ![s].sent = dumps(t, data),
                                 ![s].reached = @ \cup Shown100(stream[s].sent),
                                 ![s].data = <<>>,
                                 ![s].pc = IF data.done THEN "closed" ELSE "poll"]
     /\ progress_queues' =
          IF data.done
          THEN [x \in Registered \ {t} |-> progress_queues[x]]
          ELSE progress_queues
     /\ UNCHANGED <<worker, files, response, emitted, now, fetch, sweep>>

\* lines 260-262: the snapshot is serialised and sent; done ends the stream
S_Yield(s) ==
  LET t == stream[s].task_id
      data == stream[s].data[1]
  IN /\ stream[s].pc = "yield"
     /\ stream' = [stream EXCEPT ![s].out = Append(@, data.seq),
                                 ![s].sent = dumps(t, data),
                                 ![s].reached = @ \cup Shown100(stream[s].sent),
                                 ![s].data = <<>>,
                                 ![s].pc = IF data.done THEN "closed" ELSE "poll"]
     /\ UNCHANGED <<progress_queues, worker, files, response, emitted, now, fetch, sweep>>

(***************************************************************************)
(* download_final: GET /download_final/<task_id>.                          *)
(***************************************************************************)
\* "File not found", 404
FILE_NOT_FOUND == [code |-> 404, complete |-> FALSE, entries |-> <<>>]

\* send_file raising FileNotFoundError: the response is a server error
SERVER_ERROR == [code |-> 500, complete |-> FALSE, entries |-> <<>>]

\* send_file: the bytes the file holds when it is read
FileContent(file) == [code |-> 200, complete |-> file.complete, entries |-> file.entries]

\* lines 294-296: the path is tested with os.path.exists
F_Exists(f, task_id) ==
  /\ fetch[f].pc = "new"
  /\ fetch' =
       [fetch EXCEPT ![f] =
          [pc |-> IF files[task_id].exists THEN "send" ELSE "closed",
           task_id |-> task_id,
           late |-> emitted[task_id].done >= 1,
           result |-> IF files[task_id].exists THEN @.result ELSE FILE_NOT_FOUND]]
  /\ UNCHANGED <<progress_queues, worker, files, stream, response, emitted, now, sweep>>

\* line 297: send_file opens the path and sends what the file holds
F_Send(f) ==
  LET file == files[fetch[f].task_id] IN
  /\ fetch[f].pc = "send"
  /\ fetch' = [fetch EXCEPT ![f].pc = "closed",
                            ![f].result = IF file.exists THEN FileContent(file)
                                          ELSE SERVER_ERROR]
  /\ UNCHANGED <<progress_queues, worker, files, stream, response, emitted, now, sweep>>

(***************************************************************************)
(* cleanup_zip_files: the background thread, and the clock it reads.       *)
(***************************************************************************)
\* time passes
Tick ==
  /\ now + CLEANUP_INTERVAL <= MaxIntervals * CLEANUP_INTERVAL
  /\ now' = now + CLEANUP_INTERVAL
  /\ UNCHANGED <<progress_queues, worker, files, stream, response, emitted, fetch, sweep>>

\* a variant that removes every file it finds, whatever its age
cleanup_any_age(removable) ==
  /\ now >= sweep.wake
  /\ files' = [t \in Ids |-> IF files[t].exists /\ t \in removable
                             THEN ABSENT ELSE files[t]]
  /\ sweep' = [wake |-> now + CLEANUP_INTERVAL]
  /\ UNCHANGED <<progress_queues, worker, stream, response, emitted, now, fetch>>

\* lines 452-466, one round of the loop once the sleep is over: every file
\* older than the TTL is removed, then the thread sleeps; removable are the
\* files os.remove does not fail on (a failure is ignored)
cleanup_zip_files(removable) ==
  /\ now >= sweep.wake
  /\ files' = [t \in Ids |->
                IF /\ files[t].exists
                   /\ now - files[t].mtime > ZIP_TTL_SECONDS
                   /\ t \in removable
                THEN ABSENT ELSE files[t]]
  /\ sweep' = [wake |-> now + CLEANUP_INTERVAL]
  /\ UNCHANGED <<progress_queues, worker, stream, response, emitted, now, fetch>>

(***************************************************************************)
(* Inputs.                                                                 *)
(***************************************************************************)
HTTP == <<"h","t","t","p",":","/","/","x","/">>

\* http://x/a.jpg
URL_A == HTTP \o <<"a",".","j","p","g">>

\* http://x/d/a.jpg?k=1
URL_A_QUERY == HTTP \o <<"d","/","a",".","j","p","g","?","k","=","1">>

\* http://x/a_1.jpg
URL_A_1 == HTTP \o <<"a","_","1",".","j","p","g">>

\* http://x/a
URL_NO_EXT == HTTP \o <<"a">>

\* http://x/
URL_NO_NAME == HTTP

\* http://x/a b.png#f
URL_UNSAFE == HTTP \o <<"a"," ","b",".","p","n","g","#","f">>

BLANK == <<" ">>

\* the texts of at most n lines over a set of lines, joined by "\n"
RECURSIVE Texts(_, _)
Texts(lines, n) ==
  IF n = 0 THEN {<<>>}
  ELSE Texts(lines, n - 1)
       \cup {l \o <<NL>> \o r : l \in lines, r \in (Texts(lines, n - 1) \ {<<>>})}
       \cup lines

HALF == CHUNK_SIZE \div 2

\* content-length headers: absent, empty, not a number, and 0..n half chunks
HeadersUpTo(n) ==
  {[present |-> FALSE, value |-> <<>>], [present |-> TRUE, value |-> <<>>],
   [present |-> TRUE, value |-> <<"x">>]}
  \cup {[present |-> TRUE, value |-> IntToStr(k * HALF)] : k \in 0..n}

Headers == HeadersUpTo(MaxHalves)

\* chunk lengths iter_content yields: full, half (the rest of a body) or empty
ChunkLens == {0, HALF, CHUNK_SIZE}

\* the body read so far and one more chunk stay within the bound
Fits(t, n) == worker[t].downloaded + n <= MaxHalves * HALF

NO_HEADER == [present |-> FALSE, value |-> <<>>]

RawInputs == Texts({URL_A, BLANK}, MaxUrls)

RawTaskInputs == Texts({URL_A, URL_NO_NAME, BLANK}, MaxTaskUrls)

RawNameInputs == Texts({URL_A, URL_A_1, URL_NO_EXT, URL_UNSAFE}, MaxNameUrls)

(***************************************************************************)
(* Specifications.                                                         *)
(***************************************************************************)
\* the steps of download_worker, with every course a download can take
Worker(t) ==
  \/ W_Append(t)
  \/ W_GetFail(t)
  \/ \E h \in Headers : W_GetOk(t, h)
  \/ \E n \in ChunkLens : Fits(t, n) /\ W_Chunk(t, n)
  \/ W_IterRaise(t)
  \/ W_Writestr(t)
  \/ W_ExceptStatus(t)
  \/ W_Finish(t)
  \/ \E ok \in BOOLEAN : W_Open(t, ok)
  \/ \E ok \in BOOLEAN : W_Write(t, ok)
  \/ W_Done(t)

\* the steps of download_worker when every request either fails at once or
\* answers with an empty body and no content-length
QuickWorker(t) ==
  \/ W_Append(t)
  \/ W_GetFail(t)
  \/ W_GetOk(t, NO_HEADER)
  \/ W_Writestr(t)
  \/ W_ExceptStatus(t)
  \/ W_Finish(t)
  \/ \E ok \in BOOLEAN : W_Open(t, ok)
  \/ \E ok \in BOOLEAN : W_Write(t, ok)
  \/ W_Done(t)

Stream(s) ==
  \/ \E task_id \in Ids : S_Open(s, task_id)
  \/ S_Get(s)
  \/ S_Empty(s)
  \/ S_Yield(s)

\* one task, one subscriber, every course a download can take
Next ==
  \/ \E raw \in RawInputs : start(raw, 1)
  \/ Worker(1)
  \/ Stream(1)

Spec == Init /\ [][Next]_vars

\* one task of several URLs and nobody listening
NextTask ==
  \/ \E raw \in RawTaskInputs : start(raw, 1)
  \/ Worker(1)

SpecTask == Init /\ [][NextTask]_vars

\* one submission, of several URLs whose names collide
NextNames ==
  \/ \E raw \in RawNameInputs : response = NoResponse /\ start(raw, 1)
  \/ QuickWorker(1)

SpecNames == Init /\ [][NextNames]_vars

\* one task and several subscribers, on a disk that takes every write; the
\* threads of the worker and of the request handlers keep being scheduled
NextShared ==
  \/ \E raw \in RawInputs : start(raw, 1)
  \/ W_Append(1)
  \/ W_GetFail(1)
  \/ W_GetOk(1, NO_HEADER)
  \/ W_Writestr(1)
  \/ W_ExceptStatus(1)
  \/ W_Finish(1)
  \/ W_Open(1, TRUE)
  \/ W_Write(1, TRUE)
  \/ W_Done(1)
  \/ \E s \in Subs : Stream(s)

\* the steps of download_worker when every request fails at once and the disk
\* takes every write
FailingWorker(t) ==
  \/ W_Append(t)
  \/ W_GetFail(t)
  \/ W_ExceptStatus(t)
  \/ W_Finish(t)
  \/ W_Open(t, TRUE)
  \/ W_Write(t, TRUE)
  \/ W_Done(t)

\* several tasks submitted while others run, and one subscriber
NextTasks ==
  \/ \E task_id \in Ids : \E raw \in {URL_A, URL_NO_NAME} : start(raw, task_id)
  \/ \E t \in Ids : FailingWorker(t)
  \/ Stream(1)

SpecTasks == Init /\ [][NextTasks]_vars

SpecShared == Init /\ [][NextShared]_vars

FairShared ==
  /\ Init
  /\ [][NextShared]_vars
  /\ WF_vars(W_Append(1))
  /\ WF_vars(W_GetFail(1) \/ W_GetOk(1, NO_HEADER))
  /\ WF_vars(W_Writestr(1))
  /\ WF_vars(W_ExceptStatus(1))
  /\ WF_vars(W_Finish(1))
  /\ WF_vars(W_Open(1, TRUE))
  /\ WF_vars(W_Write(1, TRUE))
  /\ WF_vars(W_Done(1))
  /\ \A s \in Subs : WF_vars(S_Get(s)) /\ WF_vars(S_Yield(s))

\* the steps of download_final, for the requests for the archive of task 1,
\* numbered as they arrive
FetchFirst(f) ==
  \/ (IF f = 1 THEN TRUE ELSE fetch[f - 1].pc # "new") /\ F_Exists(f, 1)
  \/ F_Send(f)

\* one task whose archive is fetched while and after it is written, and the
\* cleanup thread, over more than ZIP_TTL_SECONDS
NextFetch ==
  \/ start(URL_A, 1)
  \/ QuickWorker(1)
  \/ \E f \in Fetches : FetchFirst(f)
  \/ \E removable \in SUBSET {1} : cleanup_zip_files(removable)
  \/ Tick

SpecFetch == Init /\ [][NextFetch]_vars

(***************************************************************************)
(* Properties.                                                             *)
(***************************************************************************)
\* the snapshots of task t a stream has taken off the queue and not yet sent
Taken(t) ==
  {stream[s].data[1] :
     s \in {r \in Subs : stream[r].task_id = t /\ stream[r].data # <<>>}}

\* the snapshots of task t that were put and are not yet sent
Waiting(t) ==
  {progress_queues[t][k] : k \in 1..Len(progress_queues[t])} \cup Taken(t)

\* the download_worker thread of task t has ended
WorkerEnded(t) == worker[t].pc \in {"finished", "crashed"}

Count(n) == [k \in 1..n |-> k]

Seqs(q) == [k \in 1..Len(q) |-> q[k].seq]

Names(items) == [k \in 1..Len(items) |-> items[k].name]

Distinct(names) ==
  \A i \in 1..Len(names) : \A j \in 1..Len(names) : i # j => names[i] # names[j]

IsPrefix(p, q) == Len(p) <= Len(q) /\ Prefix(q, Len(p)) = p

\* the streams that subscribed to task t and found its queue
Subscribers(t) ==
  {s \in Subs : /\ stream[s].pc # "new"
                /\ stream[s].task_id = t
                /\ stream[s].sent # NOT_FOUND}

\* C1: a snapshot that was put on a task's queue keeps, until it is sent, the
\* item values it had when it was put: no step changes the name, status or
\* progress of an item of a snapshot that waits to be read.
C1_SnapshotsImmutable ==
  [][\A t \in Registered : \A x \in Waiting(t) :
       ValuesIn(worker'[t], x.items) = ValuesIn(worker[t], x.items)]_vars

C2_State ==
  \A t \in Registered :
    /\ emitted[t].done <= 1
    /\ \A k \in 1..Len(progress_queues[t]) :
         progress_queues[t][k].done => k = Len(progress_queues[t])
    /\ \A x \in Waiting(t) :
         x.done => /\ x.seq = emitted[t].n
                   /\ Values(t, x.items) = worker[t].items
    /\ \A s \in Subscribers(t) :
         stream[s].sent.done => /\ stream[s].sent.seq = emitted[t].n
                                /\ stream[s].sent.items = worker[t].items

C2_Step ==
  \A t \in Registered :
    emitted[t].done = 1 => /\ emitted'[t] = emitted[t]
                           /\ worker'[t].items = worker[t].items

\* C2: a task emits at most one snapshot with done=true; after it nothing is
\* put on the task's queue and no item changes; the done snapshot is the last
\* of the queue and lists the final state of all items.
C2_DoneIsLast == [](C2_State) /\ [][C2_Step]_vars

C2_Witness ==
  \E s \in Subs :
    /\ stream[s].sent.done
    /\ worker[stream[s].task_id].pc = "finished"
    /\ Len(stream[s].sent.items) >= 1

\* C3: every stream that subscribed to a registered task in time sends an
\* entry with done=true and ends, however many streams share the task.
C3_EverySubscriberEnds ==
  \A s \in Subs :
    (stream[s].pc = "poll") ~> (stream[s].pc = "closed" /\ stream[s].sent.done)

\* C4: a worker thread never ends without having put the done=true snapshot.
C4_EndsWithDone == \A t \in Ids : WorkerEnded(t) => emitted[t].done = 1

\* C5: with one subscriber on a task, what it sent, what it holds and what is
\* queued are together the snapshots 1..n the worker put, in that order; once
\* the stream has ended it has sent every one of them, once, in order.
C5_Fifo ==
  \A t \in Registered : \A s \in Subscribers(t) :
    Subscribers(t) = {s} =>
      /\ stream[s].out \o Seqs(stream[s].data) \o Seqs(progress_queues[t])
           = Count(emitted[t].n)
      /\ stream[s].pc = "closed" => /\ stream[s].out = Count(emitted[t].n)
                                    /\ stream[s].sent.done

C5_Witness ==
  /\ stream[1].pc = "closed"
  /\ stream[1].sent.done
  /\ Len(stream[1].out) >= 4
  /\ stream[1].out = Count(emitted[1].n)

\* C6: from one entry a stream sends to the next, the progress of an item that
\* has not yet been shown with 100 does not decrease.
C6_ProgressMonotone ==
  [][\A s \in Subs :
       stream'[s].out # stream[s].out =>
         \A k \in 1..Len(stream[s].sent.items) :
           (/\ k \notin stream[s].reached
            /\ stream[s].sent.items[k].progress # 100
            /\ k <= Len(stream'[s].sent.items))
           => stream'[s].sent.items[k].progress >= stream[s].sent.items[k].progress
    ]_vars

\* the items of task t whose download succeeded
Succeeded(t) ==
  {k \in 1..Len(worker[t].items) : worker[t].items[k].status = SUCCEEDED}

\* C7: once done=true is put, the archive file is complete, its entry names
\* are exactly the names of the succeeded items, one entry each, and each
\* entry holds all the bytes its item's URL delivered.
C7_ArchiveHoldsSucceeded ==
  \A t \in Ids :
    emitted[t].done = 1 =>
      LET e == files[t].entries
          w == worker[t]
      IN /\ files[t].exists /\ files[t].complete
         /\ {e[j].name : j \in 1..Len(e)} = {w.items[k].name : k \in Succeeded(t)}
         /\ Len(e) = Cardinality(Succeeded(t))
         /\ \A k \in Succeeded(t) : \E j \in 1..Len(e) :
              e[j] = [name |-> w.items[k].name,
                      data |-> [url |-> w.urls[k], len |-> w.received[k]]]

C7_Witness ==
  /\ emitted[1].done = 1
  /\ \E k \in 1..Len(worker[1].items) :
       worker[1].items[k].status \in Failed /\ worker[1].received[k] > 0
  /\ \E k \in Succeeded(1) : worker[1].received[k] > 0

C8_State ==
  \A t \in Registered :
    LET w == worker[t] IN
    /\ WorkerEnded(t) =>
         /\ Len(w.items) = Len(w.urls)
         /\ \A k \in 1..Len(w.items) : w.items[k].status \in Terminal
    /\ w.pc \in {"except", "failed"} => ENABLED (W_ExceptStatus(t) \/ W_Finish(t))
    /\ \A x \in Waiting(t) :
         x.done =>
           /\ x.items = Count(Len(w.urls))
           /\ \A k \in 1..Len(w.urls) :
                IsPrefix(splitext(extract_filename_from_url(w.urls[k]))[1],
                         w.items[x.items[k]].name)

C8_Step ==
  \A t \in Registered :
    \A k \in 1..Len(worker[t].items) :
      (k # Len(worker[t].items) \/ worker[t].pc \notin {"get", "iter", "except", "ok", "failed"})
        => worker'[t].items[k] = worker[t].items[k]

\* C8: a failed URL never ends the task: the worker goes on, and when it ends
\* every URL has its item, in submission order, also in the done=true
\* snapshot; a step on one URL's item changes no other item.
C8_FailureIsolated == [](C8_State) /\ [][C8_Step]_vars

C8_Witness ==
  /\ emitted[1].done = 1
  /\ Len(worker[1].items) = 2
  /\ worker[1].items[1].status \in Failed
  /\ worker[1].items[2].status = SUCCEEDED
  /\ worker[1].urls[1] # worker[1].urls[2]

\* base_n.ext for n > 0, and the name itself for n = 0
Candidate(f, n) ==
  IF n = 0 THEN f
  ELSE splitext(f)[1] \o <<"_">> \o IntToStr(n) \o splitext(f)[2]

A_JPG == <<"a",".","j","p","g">>

A_1_JPG == <<"a","_","1",".","j","p","g">>

A_2_JPG == <<"a","_","2",".","j","p","g">>

\* C9: the item names of every snapshot are pairwise distinct; the name of
\* the k-th item is its URL's file name if no earlier item has it, and
\* otherwise the first of base_1.ext, base_2.ext, ... no earlier item has.
C9_UniqueNames ==
  \A t \in Registered :
    LET w == worker[t] IN
    /\ Distinct(Names(w.items))
    /\ \A x \in Waiting(t) : Distinct(Names(Values(t, x.items)))
    /\ \A k \in 1..Len(w.items) :
         LET f == extract_filename_from_url(w.urls[k])
             used == {w.items[j].name : j \in 1..(k - 1)}
             free == {n \in 0..k : Candidate(f, n) \notin used}
         IN w.items[k].name = Candidate(f, CHOOSE n \in free : \A m \in free : n <= m)
    /\ (w.urls = <<URL_A, URL_A>> /\ Len(w.items) = 2)
         => Names(w.items) = <<A_JPG, A_1_JPG>>
    /\ (w.urls = <<URL_A_1, URL_A, URL_A>> /\ Len(w.items) = 3)
         => Names(w.items) = <<A_1_JPG, A_JPG, A_2_JPG>>

C9_Witness ==
  /\ 1 \in Registered
  /\ Len(progress_queues[1]) >= 3
  /\ Names(Values(1, progress_queues[1][Len(progress_queues[1])].items))
       = <<A_1_JPG, A_JPG, A_2_JPG>>

C10_Step ==
  \A s \in Subs :
    /\ (stream[s].pc = "new" /\ stream'[s].pc # "new"
        /\ stream'[s].task_id \notin Registered)
       => /\ stream'[s] = [NoStream EXCEPT !.pc = "closed",
                                           !.task_id = stream'[s].task_id,
                                           !.out = <<0>>, !.sent = NOT_FOUND]
          /\ progress_queues' = progress_queues
    /\ stream[s].pc = "closed" => stream'[s] = stream[s]

\* C10: subscribing to a task that has no queue in the registry sends the
\* one entry "task not found" and ends; it takes nothing off a queue, never
\* polls, and leaves the registry and every queue as they are.
C10_UnknownTask == [][C10_Step]_vars

C10_Witness ==
  \E s \in Subs :
    /\ stream[s].pc = "closed"
    /\ stream[s].sent = NOT_FOUND
    /\ stream[s].task_id \notin Registered
    /\ Registered # {}
    /\ \E t \in Registered : progress_queues[t] # <<>>

C11_State ==
  /\ \A t \in Ids :
       (worker[t].pc # "none" \/ files[t].exists \/ emitted[t].n > 0)
         => t \in Registered
  /\ \A t \in Registered :
       /\ worker[t].urls # <<>>
       /\ \A k \in 1..Len(worker[t].urls) :
            worker[t].urls[k] # <<>> /\ Strip(worker[t].urls[k]) = worker[t].urls[k]
  /\ response.code = 400 => response.task_id = 0
  /\ response.code = 200 => response.task_id \in Registered

C11_Step ==
  /\ (response' # response /\ response'.code = 400)
       => UNCHANGED <<progress_queues, worker, files, stream, emitted>>
  /\ Registered' # Registered => response'.code = 200

\* C11: a submission whose lines are all blank is answered with 400 and no
\* task identifier, and changes nothing: the registry, the workers, the
\* files and the queues stay as they were; a queue, a worker or a file
\* exists only for a submission that had at least one non-blank line.
C11_EmptySubmit == [](C11_State) /\ [][C11_Step]_vars

C11_Witness ==
  /\ response.code = 400
  /\ Registered = {}
  /\ \E s \in Subs : stream[s].pc = "closed"

\* the requests for the archive of task t that arrived after the task's
\* done=True snapshot and were answered
LateFetches(t) ==
  {f \in Fetches : /\ fetch[f].pc = "closed"
                   /\ fetch[f].task_id = t
                   /\ fetch[f].late}

\* the archive task t wrote, as a response
Archive(t) == [code |-> 200, complete |-> TRUE, entries |-> worker[t].zf]

\* C12 as stated: any two requests for the archive of a task made after its
\* done=True snapshot get the same response, the file being neither changed
\* nor removed once it is written.
C12_SameBytes ==
  \A t \in Ids : \A f \in LateFetches(t) : \A g \in LateFetches(t) :
    fetch[f].result = fetch[g].result

C12_State ==
  \A t \in Ids :
    /\ emitted[t].done >= 1 =>
         \/ files[t] = ABSENT
         \/ /\ files[t].exists /\ files[t].complete
            /\ files[t].entries = worker[t].zf
    /\ \A f \in LateFetches(t) :
         fetch[f].result \in {Archive(t), FILE_NOT_FOUND, SERVER_ERROR}

C12_Step ==
  \A t \in Ids :
    /\ (files[t].exists /\ ~files'[t].exists)
         => now - files[t].mtime > ZIP_TTL_SECONDS
    /\ (emitted[t].done >= 1 /\ files[t].exists /\ files'[t].exists)
         => files'[t] = files[t]

\* C12 amended: after a task's done=True snapshot its archive file is never
\* changed, and it is removed only once it is older than ZIP_TTL_SECONDS;
\* every request made after the snapshot is answered with the archive the
\* task wrote, or with an error once the file was removed.
C12_FetchAfterDone == [](C12_State) /\ [][C12_Step]_vars

C12_Witness ==
  \E f \in LateFetches(1) : \E g \in LateFetches(1) :
    /\ fetch[f].result = Archive(1)
    /\ fetch[f].result.entries # <<>>
    /\ fetch[g].result = FILE_NOT_FOUND

\* C13 as stated: in every state in which a task has put its done=True
\* snapshot, the complete archive file exists.
C13_ArchiveExists ==
  \A t \in Ids : emitted[t].done >= 1 => files[t].exists /\ files[t].complete

C13_State ==
  \A t \in Ids :
    /\ (emitted[t].done >= 1 \/ worker[t].pc = "put_done") =>
         /\ files[t].exists =>
              files[t].complete /\ files[t].entries = worker[t].zf
         /\ now <= ZIP_TTL_SECONDS => files[t].exists
    /\ \A f \in LateFetches(t) :
         now <= ZIP_TTL_SECONDS => fetch[f].result = Archive(t)

C13_Step ==
  \A t \in Ids :
    /\ emitted'[t].done > emitted[t].done =>
         /\ worker[t].pc = "put_done"
         /\ files'[t] = files[t]
    /\ (worker'[t].pc = "put_done" /\ worker[t].pc # "put_done") =>
         /\ files'[t].exists /\ files'[t].complete
         /\ files'[t].entries = worker'[t].zf
         /\ files'[t].mtime = now
    /\ (files[t].complete /\ files'[t] # files[t]) =>
         /\ files'[t] = ABSENT
         /\ now - files[t].mtime > ZIP_TTL_SECONDS

\* C13 amended: the worker puts the done=True snapshot only after it has
\* written and closed the archive file; from then on the file is complete
\* and unchanged for as long as it exists, and it exists until the cleanup
\* thread removes it, no sooner than ZIP_TTL_SECONDS after it was written, so
\* that a request made after done=True and before that gets the archive.
C13_PersistedBeforeDone == [](C13_State) /\ [][C13_Step]_vars

C13_Witness ==
  /\ emitted[1].done = 1
  /\ files[1].complete
  /\ files[1].entries # <<>>
  /\ now = ZIP_TTL_SECONDS
  /\ \E f \in LateFetches(1) : fetch[f].result = Archive(1)

C14_State ==
  \A t \in Registered :
    LET w == worker[t] IN
    /\ (w.pc = "loop" /\ w.i <= Len(w.urls)) => ENABLED W_Append(t)
    /\ w.pc \in {"ok", "failed"} => ENABLED W_Finish(t)
    /\ w.pc = "put_done" => ENABLED W_Done(t)
    /\ emitted[t].n = Len(w.items) + (w.i - 1) + emitted[t].done
    /\ w.pc = "finished" =>
         /\ emitted[t].done = 1
         /\ files[t].complete /\ files[t].entries = w.zf
         /\ \A k \in 1..Len(w.items) :
              w.items[k].status \in Terminal /\ w.items[k].progress = 100

C14_Step ==
  /\ stream' # stream =>
       worker' = worker /\ files' = files /\ emitted' = emitted
  /\ \A t \in Registered :
       worker'[t] # worker[t] =>
         /\ stream' = stream
         /\ \/ /\ emitted'[t] = emitted[t]
               /\ progress_queues'[t] = progress_queues[t]
            \/ /\ emitted'[t].n = emitted[t].n + 1
               /\ progress_queues'[t] =
                    Append(progress_queues[t],
                           [items |-> Count(Len(worker'[t].items)),
                            done |-> worker'[t].pc = "finished",
                            seq |-> emitted'[t].n])

\* C14: the worker never waits for a subscriber: each of its puts can be
\* made at once however many snapshots are queued, a step of a subscriber
\* changes nothing of the worker, its items, its archive or the count of
\* what it has put, and a step of the worker only appends to the queue; the
\* number of snapshots put is fixed by the worker's own course, whether none,
\* one or several subscribers read the queue or stop reading it.
C14_WorkerNeverWaits == [](C14_State) /\ [][C14_Step]_vars

C14_Witness ==
  /\ worker[1].pc = "finished"
  /\ Len(progress_queues[1]) = emitted[1].n
  /\ \A s \in Subs : /\ stream[s].pc = "poll"
                     /\ stream[s].task_id = 1
                     /\ stream[s].out = <<>>

C15_State ==
  /\ response.code = 200 => response.task_id \in Registered
  /\ \A t \in Ids : worker[t].pc # "none" => t \in Registered
  /\ \A s \in Subs : stream[s].pc \in {"poll", "yield"} => stream[s].task_id \in Registered

C15_Step ==
  /\ Registered \subseteq Registered'
  /\ \A t \in Registered :
       LET q == progress_queues[t]
           r == progress_queues'[t]
       IN \/ r = q
          \/ Len(r) = Len(q) + 1 /\ IsPrefix(q, r)
          \/ q # <<>> /\ r = Tail(q)
  /\ \A s \in Subs :
       (stream[s].pc = "new" /\ stream'[s].pc # "new"
        /\ stream'[s].task_id \in Registered)
       => /\ stream'[s].pc = "poll"
          /\ stream'[s].sent # NOT_FOUND

\* C15: the registry only grows: a task's queue is in it when start answers
\* and when its worker runs, it is never removed or replaced by another (its
\* content changes only by a put at the tail or a get at the head), and a
\* subscription to a registered task finds the queue and never sends "task
\* not found", also once the worker has finished.
C15_RegistryPermanent == [](C15_State) /\ [][C15_Step]_vars

C15_Witness ==
  /\ worker[1].pc = "finished"
  /\ stream[1].pc = "closed"
  /\ stream[1].sent.done
  /\ stream[2].pc = "poll"
  /\ stream[2].task_id = 1
  /\ stream[2].out = <<>>
  /\ response = [code |-> 400, task_id |-> 0]

FILE_JPG == <<"f","i","l","e",".","j","p","g">>

\* the items are items of task t: the k-th has the file name of the task's
\* k-th URL, for the URLs http://x/a.jpg and http://x/
ItemsOf(t, items) ==
  /\ Len(items) <= Len(worker[t].urls)
  /\ \A k \in 1..Len(items) :
       items[k].name = IF worker[t].urls[k] = URL_A THEN A_JPG ELSE FILE_JPG

\* what the subscribers of task t sent and hold, by number
Delivered(t) ==
  IF Subscribers(t) = {} THEN <<>>
  ELSE LET s == CHOOSE r \in Subscribers(t) : TRUE
       IN stream[s].out \o Seqs(stream[s].data)

C16_State ==
  /\ \A t \in Ids : worker[t].pc # "none" => t \in Registered
  /\ \A t \in Registered :
       /\ Delivered(t) \o Seqs(progress_queues[t]) = Count(emitted[t].n)
       /\ \A x \in Waiting(t) :
            /\ x.items = Count(Len(x.items))
            /\ ItemsOf(t, Values(t, x.items))
  /\ \A s \in Subs :
       stream[s].pc \in {"poll", "yield", "closed"} /\ stream[s].sent # NOT_FOUND
         => ItemsOf(stream[s].task_id, stream[s].sent.items)

C16_Step ==
  /\ Registered' # Registered =>
       /\ response'.code = 200
       /\ response'.task_id \notin Registered
       /\ Registered' = Registered \cup {response'.task_id}
       /\ progress_queues'[response'.task_id] = <<>>
       /\ \A t \in Registered :
            progress_queues'[t] = progress_queues[t] /\ worker'[t] = worker[t]
  /\ \A t \in Registered :
       (worker'[t] # worker[t] \/ emitted'[t] # emitted[t]) =>
         \A u \in Registered \ {t} :
           /\ worker'[u] = worker[u]
           /\ progress_queues'[u] = progress_queues[u]
           /\ emitted'[u] = emitted[u]
           /\ files'[u] = files[u]

\* C16: every accepted submission gets an identifier no task has, and its
\* own empty queue, and leaves the queues and workers of the other tasks as
\* they are; a step of one task's worker changes nothing of another task;
\* the snapshots of a task are all in that task's queue or with its
\* subscriber, in the order they were put, and list items of that task only.
C16_TasksIndependent == [](C16_State) /\ [][C16_Step]_vars

C16_Witness ==
  /\ Registered = {1, 2}
  /\ worker[1].urls # worker[2].urls
  /\ worker[1].pc = "failed"
  /\ worker[2].pc = "get"
  /\ stream[1].task_id = 2
  /\ stream[1].out = <<1>>
  /\ Len(progress_queues[1]) = 1

\* at most the last item of the list is being fetched; the others are through
OneAtATime(items) ==
  \A k \in 1..Len(items) :
    IF k < Len(items) THEN items[k].status \in Terminal
    ELSE items[k].status \in {FETCHING} \cup Terminal

C17_State ==
  \A t \in Registered :
    /\ OneAtATime(worker[t].items)
    /\ \A x \in Waiting(t) : OneAtATime(Values(t, x.items))
    /\ worker[t].pc \in {"get", "iter", "except"} =>
         worker[t].items[Len(worker[t].items)].status = FETCHING

C17_Step ==
  \A t \in Registered :
    Len(worker'[t].items) # Len(worker[t].items) =>
      /\ Len(worker'[t].items) = Len(worker[t].items) + 1
      /\ \A k \in 1..Len(worker[t].items) :
           /\ worker[t].items[k].status \in Terminal
           /\ worker'[t].items[k] = worker[t].items[k]
      /\ worker'[t].items[Len(worker'[t].items)].status = FETCHING

\* C17: the URLs of a task are processed one after another: in the worker's
\* list and in every queued snapshot only the last item can be in status
\* fetching, every item before it has succeeded or failed, and an item is
\* added only when all items before it have succeeded or failed.
C17_OneUrlAtATime == [](C17_State) /\ [][C17_Step]_vars

C17_Witness ==
  /\ 1 \in Registered
  /\ Len(worker[1].items) = 2
  /\ worker[1].items[1].status = SUCCEEDED
  /\ worker[1].items[2].status = FETCHING
  /\ worker[1].pc = "iter"
  /\ \E x \in Waiting(1) : Len(x.items) = 1

\* C18: in every entry a stream sends, an item whose status is succeeded or
\* failed has progress 100.
C18_TerminalMeans100 ==
  \A s \in Subs :
    \A k \in 1..Len(stream[s].sent.items) :
      stream[s].sent.items[k].status \in Terminal
        => stream[s].sent.items[k].progress = 100

\* C19: the progress of every item is within 0..100, in the worker's list
\* and in every entry a stream sends.
C19_ProgressInRange ==
  /\ \A t \in Ids : \A k \in 1..Len(worker[t].items) :
       worker[t].items[k].progress \in 0..100
  /\ \A s \in Subs : \A k \in 1..Len(stream[s].sent.items) :
       stream[s].sent.items[k].progress \in 0..100

\* C20: a request for a task's archive that is answered with content is
\* answered with the complete archive the task produces, never with what
\* the file holds while the worker writes it.
C20_NoPartialArchive ==
  \A f \in Fetches :
    (fetch[f].pc = "closed" /\ fetch[f].result.code = 200)
      => fetch[f].result = Archive(fetch[f].task_id)

====
